---- MODULE Spec2Model ----
(***************************************************************************)
(* Model of the Tig provenance tools:                                      *)
(*   - src/tig_local_query.js : the blame query (TigLocalQuery)            *)
(*   - src/unnamed/part_000   : the sync of manual edits (TigSync)         *)
(*                                                                         *)
(* JavaScript values are records [t |-> type, v |-> payload].  A string is *)
(* a sequence of characters (opaque texts are one-token sequences), so     *)
(* that ===, startsWith and truthiness are computed, not assumed.          *)
(***************************************************************************)
EXTENDS Naturals, Sequences, FiniteSets, TLC

VARIABLES
    \* ---- query side (tig_local_query.js) ----
    indexFile,     \* .tig/micro_index.json on disk
    shadowDir,     \* .tig/shadow/<basename>.tig on disk, by basename
    microIndex,    \* this.microIndex, once constructed
    qpc,           \* "new" before the constructor ran, "ready" after
    call,          \* the last call made on the engine
    outcome,       \* what the last call did: "none", "returned", "thrown"
    result,        \* the value the last call returned
    scan,          \* trace of the last snapshot scan: entries examined, index selected
    \* ---- sync side (part_000) ----
    outside,       \* the files of the directory above the project, by relative path
    project,       \* the files of the project tree, by relative path
    mirror,        \* the files of .tig, by relative path
    tigExists,     \* .tig exists
    isRepo,        \* .tig/.git exists
    otherDirt,     \* .tig holds uncommitted changes in files outside the universe
    headTree,      \* the files of the mirror's last commit
    commits,       \* the messages of the commits made in .tig, oldest first
    gitStatus,     \* what git status did in the invocation: "unrun", "failed", "clean", "dirty"
    spc,           \* where the current sync invocation stands
    args,          \* the arguments of the invocation, each once it has been read
    changes,       \* [modified, newFiles, deleted] of the invocation
    readFailed,    \* the paths whose comparison threw in the invocation
    queue,         \* the file operations still to attempt
    successCount,
    files_synced,
    ret,           \* what sync returned: "none" while it runs, "true", "false"
    trace,         \* the steps the invocation has taken
    before,        \* the project, the mirror and the commits as the invocation found them
    prev           \* the invocation that ran before this one, if any

qvars == <<indexFile, shadowDir, microIndex, qpc, call, outcome, result, scan>>

svars == <<outside, project, mirror, tigExists, isRepo, otherDirt, headTree, commits,
           gitStatus, spc,
           args, changes, readFailed, queue, successCount, files_synced,
           ret, trace, before, prev>>

vars == <<qvars, svars>>

(***************************************************************************)
(* Bounds of the model.                                                    *)
(***************************************************************************)
MaxSnapshots == 2
MaxHistory == 3
MaxJoinHistory == 1
MaxFiles == 2

(***************************************************************************)
(* JavaScript values.                                                      *)
(***************************************************************************)
UNDEF == [t |-> "undefined", v |-> <<>>]
NULL == [t |-> "null", v |-> <<>>]
Str(s) == [t |-> "string", v |-> s]
Arr(s) == [t |-> "array", v |-> s]
\* a JSON number other than 0, e.g. 123
NUM == [t |-> "number", v |-> <<"1", "2", "3">>]
EMPTY == Str(<<>>)

\* ToBoolean: undefined, null and '' are falsy; a non-zero number, a
\* non-empty string and every array (also []) are truthy.
Truthy(x) ==
    CASE x.t = "undefined" -> FALSE
      [] x.t = "null" -> FALSE
      [] x.t = "string" -> x.v # <<>>
      [] OTHER -> TRUE

\* a || b
Or(a, b) == IF Truthy(a) THEN a ELSE b

\* a === b
StrictEq(a, b) == a.t = b.t /\ a.v = b.v

IsPrefix(p, s) == Len(p) <= Len(s) /\ SubSeq(s, 1, Len(p)) = p

\* stored.startsWith(commitHash) is a method of strings only: on any other
\* truthy value the property is undefined and the call throws a TypeError.
StartsWithThrows(stored) == stored.t # "string"

StartsWith(stored, q) == IsPrefix(q.v, stored.v)

SeqsUpTo(S, n) == UNION {[1..k -> S] : k \in 0..n}

(***************************************************************************)
(* Files on disk.  A file is missing, holds text JSON.parse rejects, or    *)
(* holds a JSON document, val.                                             *)
(***************************************************************************)
MissingFile == [st |-> "missing"]
CorruptFile == [st |-> "corrupt"]
JsonFile(val) == [st |-> "json", val |-> val]

\* The fallback index of the constructor.
EmptyIndex == [snapshots |-> <<>>, conversations |-> <<>>]

\* loadJson(filePath, fallback): the parsed document, or the fallback when
\* readFileSync or JSON.parse throws.
loadJson(file, fallback) ==
    IF file.st = "json" THEN file.val ELSE fallback

\* path.basename(filePath): a path is its sequence of components.
basename(filePath) == filePath[Len(filePath)]

(***************************************************************************)
(* getShadowContext                                                        *)
(***************************************************************************)
EmptyContext ==
    [ai_response |-> UNDEF, tool_operations |-> UNDEF,
     user_prompt |-> UNDEF, timestamp |-> UNDEF]

ContextOf(entry) ==
    [ai_response |-> Or(entry.ai_response, EMPTY),
     tool_operations |-> Or(entry.tool_operations, Arr(<<>>)),
     user_prompt |-> Or(entry.user_prompt, EMPTY),
     timestamp |-> Or(entry.timestamp, EMPTY)]

\* The for-of loop over history, from entry i on: the context of the first
\* entry whose conversation_id === conversationId, {} when none is left.
RECURSIVE HistoryScanFrom(_, _, _)
HistoryScanFrom(history, i, conversationId) ==
    IF i > Len(history) THEN EmptyContext
    ELSE IF StrictEq(history[i].conversation_id, conversationId)
         THEN ContextOf(history[i])
         ELSE HistoryScanFrom(history, i + 1, conversationId)

\* Mutant of HistoryScan: the last entry of the conversation wins.
HistoryScanLast(history, conversationId) ==
    LET hits == {i \in 1..Len(history) :
                    StrictEq(history[i].conversation_id, conversationId)}
    IN IF hits = {} THEN EmptyContext
       ELSE ContextOf(history[CHOOSE i \in hits : \A j \in hits : j <= i])

HistoryScan(history, conversationId) ==
    HistoryScanFrom(history, 1, conversationId)

getShadowContext(dir, filePath, conversationId) ==
    LET shadowFile == dir[basename(filePath)] IN
    IF shadowFile.st = "missing" THEN EmptyContext
    ELSE IF shadowFile.st = "corrupt" THEN EmptyContext
    ELSE LET data == shadowFile.val
             history == IF data.history.t = "array"
                        THEN data.history.v ELSE <<>>
         IN HistoryScan(history, conversationId)

(***************************************************************************)
(* getBlameInfo                                                            *)
(***************************************************************************)
\* (snapData && snapData.commit) || ''
StoredCommit(snapData) == Or(snapData.commit, EMPTY)

\* Mutant of CommitMatches: full hashes only, no prefix.
CommitEqual(stored, commitHash) == StrictEq(stored, commitHash)

\* stored === commitHash || stored.startsWith(commitHash), given that the
\* call of startsWith does not throw
CommitMatches(stored, commitHash) ==
    StrictEq(stored, commitHash) \/ StartsWith(stored, commitHash)

\* The for-of loop over Object.entries(snapshots), from entry i on.
\* sel is the index of the snapshot taken (0: none), examined the number of
\* entries the loop looked at, thrown whether startsWith threw.
RECURSIVE SnapshotScanFrom(_, _, _)
SnapshotScanFrom(snapshots, i, commitHash) ==
    IF i > Len(snapshots)
    THEN [thrown |-> FALSE, sel |-> 0, examined |-> Len(snapshots)]
    ELSE LET stored == StoredCommit(snapshots[i]) IN
         IF StrictEq(stored, commitHash)
         THEN [thrown |-> FALSE, sel |-> i, examined |-> i]
         ELSE IF StartsWithThrows(stored)
         THEN [thrown |-> TRUE, sel |-> 0, examined |-> i]
         ELSE IF CommitMatches(stored, commitHash)
         THEN [thrown |-> FALSE, sel |-> i, examined |-> i]
         ELSE SnapshotScanFrom(snapshots, i + 1, commitHash)

SnapshotScan(snapshots, commitHash) ==
    SnapshotScanFrom(snapshots, 1, commitHash)

NoProvenance ==
    [conversation_id |-> NULL, user_prompt |-> NULL, prompt |-> NULL,
     ai_response |-> NULL, timestamp |-> NULL, tool_operations |-> Arr(<<>>),
     commit_hash |-> UNDEF, file_path |-> UNDEF]

\* An object none of whose properties is set.
EmptyConversation ==
    [prompt |-> UNDEF, start_time |-> UNDEF, responses |-> UNDEF]

\* Mutant of ConversationOf: an unknown id falls back to the first
\* conversation of the map instead of {}.
ConversationOrFirst(conversations, convId) ==
    LET hits == {k \in 1..Len(conversations) :
                    convId.t = "string" /\ conversations[k].id = convId.v}
    IN IF hits # {} THEN conversations[CHOOSE k \in hits : TRUE].rec
       ELSE IF Len(conversations) > 0 THEN conversations[1].rec
       ELSE EmptyConversation

\* (conversations || {})[convId] || {}: conversations is the sequence of the
\* map's entries, each [id, rec]; only a string names one of its keys.
ConversationOf(conversations, convId) ==
    LET hits == {k \in 1..Len(conversations) :
                    convId.t = "string" /\ conversations[k].id = convId.v}
    IN IF hits = {} THEN EmptyConversation
       ELSE conversations[CHOOSE k \in hits : TRUE].rec

\* Mutant of FirstResponse: the latest response instead of the first.
LastResponse(conversation) ==
    LET responses == IF conversation.responses.t = "array"
                     THEN conversation.responses.v ELSE <<>>
    IN IF Len(responses) > 0 THEN responses[Len(responses)] ELSE EMPTY

\* responses.length ? responses[0] : ''
FirstResponse(conversation) ==
    LET responses == IF conversation.responses.t = "array"
                     THEN conversation.responses.v ELSE <<>>
    IN IF Len(responses) > 0 THEN responses[1] ELSE EMPTY

\* Mutant of TimestampOf: the conversation's start time preferred.
TimestampStartFirst(snapshot, conversation) ==
    Or(conversation.start_time, Or(snapshot.timestamp, EMPTY))

\* snapshot.timestamp || conversation.start_time || ''
TimestampOf(snapshot, conversation) ==
    Or(snapshot.timestamp, Or(conversation.start_time, EMPTY))

\* The record of lines 92-107, for the snapshot taken.
Compose(index, dir, snapshot, commitHash, filePath) ==
    LET convId == snapshot.conversation_id
        conversation == ConversationOf(index.conversations, convId)
        shadowContext == getShadowContext(dir, filePath, convId)
    IN [conversation_id |-> convId,
        user_prompt |-> Or(conversation.prompt, EMPTY),
        prompt |-> Or(conversation.prompt, EMPTY),
        ai_response |-> Or(shadowContext.ai_response, FirstResponse(conversation)),
        timestamp |-> TimestampOf(snapshot, conversation),
        tool_operations |-> Or(shadowContext.tool_operations, Arr(<<>>)),
        commit_hash |-> commitHash,
        file_path |-> Str(filePath)]

\* getBlameInfo(commitHash, filePath): [thrown, value, scan].
getBlameInfo(index, dir, commitHash, filePath) ==
    LET s == SnapshotScan(index.snapshots, commitHash) IN
    IF s.thrown THEN [thrown |-> TRUE, value |-> NoProvenance, scan |-> s]
    ELSE IF s.sel = 0 THEN [thrown |-> FALSE, value |-> NoProvenance, scan |-> s]
    ELSE [thrown |-> FALSE,
          value |-> Compose(index, dir, index.snapshots[s.sel], commitHash, filePath),
          scan |-> s]

(***************************************************************************)
(* The inputs of the query side.                                           *)
(***************************************************************************)
C1 == Str(<<"C1">>)
C2 == Str(<<"C2">>)
T1 == Str(<<"T1">>)
T0 == Str(<<"T0">>)

\* What a snapshot's commit property may hold: nothing, a number, a hash.
StoredCommits ==
    {UNDEF, NUM, Str(<<"a", "b">>), Str(<<"a", "b", "c">>), Str(<<"b">>)}

\* The hashes a caller asks about: argv strings, a prefix or a full hash.
QueryHashes ==
    {EMPTY, Str(<<"a">>), Str(<<"a", "b">>), Str(<<"a", "b", "c">>), Str(<<"b">>)}

FilePaths == {<<"src", "auth.js">>, <<"auth.js">>, <<"util.js">>}

BaseNames == {basename(f) : f \in FilePaths}

ConversationIds == {C1, C2}

\* The conversation and the shadow file of the spec's scenario.
AuthConversation ==
    [prompt |-> Str(<<"add auth">>), start_time |-> T0,
     responses |-> Arr(<<Str(<<"done">>), Str(<<"more">>)>>)]

AuthEntry ==
    [conversation_id |-> C1, ai_response |-> Str(<<"Added JWT auth">>),
     tool_operations |-> Arr(<<"write">>), user_prompt |-> Str(<<"add auth">>),
     timestamp |-> Str(<<"TS">>)]

OtherEntry ==
    [conversation_id |-> C1, ai_response |-> Str(<<"Refactored auth">>),
     tool_operations |-> Arr(<<"edit">>), user_prompt |-> Str(<<"refactor">>),
     timestamp |-> Str(<<"TS2">>)]

BareEntry ==
    [conversation_id |-> C1, ai_response |-> UNDEF,
     tool_operations |-> UNDEF, user_prompt |-> UNDEF, timestamp |-> UNDEF]

ForConversation(entry, id) == [entry EXCEPT !.conversation_id = id]

ShadowJson(history) == JsonFile([history |-> Arr(history)])

ShadowOf(authFile) ==
    [b \in BaseNames |-> IF b = "auth.js" THEN authFile ELSE MissingFile]

IndexJson(snapshots, conversations) ==
    JsonFile([snapshots |-> snapshots, conversations |-> conversations])

\* Family 1: any snapshots map, by commit; the rest as in the scenario.
ScanSnapshots ==
    SeqsUpTo([commit : StoredCommits, conversation_id : {C1}, timestamp : {T1}],
             MaxSnapshots)

ScanInputs ==
    /\ indexFile \in {IndexJson(sn, <<[id |-> <<"C1">>, rec |-> AuthConversation]>>) :
                        sn \in ScanSnapshots}
    /\ shadowDir = ShadowOf(ShadowJson(<<AuthEntry>>))

\* Family 2: one snapshot of commit "ab"; any index file, conversation,
\* references and shadow file.
JoinConversations ==
    [prompt : {UNDEF, Str(<<"add auth">>)}, start_time : {UNDEF, T0},
     responses : {UNDEF, Arr(<<>>), Arr(<<Str(<<"done">>), Str(<<"more">>)>>)}]

JoinEntries ==
    {ForConversation(e, id) : e \in {AuthEntry, BareEntry}, id \in ConversationIds}

JoinShadowFiles ==
    {MissingFile, CorruptFile, JsonFile([history |-> UNDEF])}
        \cup {ShadowJson(h) : h \in SeqsUpTo(JoinEntries, MaxJoinHistory)}

JoinIndexFiles ==
    {MissingFile, CorruptFile}
        \cup {IndexJson(<<[commit |-> Str(<<"a", "b">>), conversation_id |-> id,
                           timestamp |-> ts]>>, cs) :
                id \in ConversationIds, ts \in {UNDEF, T1},
                cs \in {<<>>} \cup {<<[id |-> <<"C1">>, rec |-> r]>> :
                                        r \in JoinConversations}}

JoinInputs ==
    /\ indexFile \in JoinIndexFiles
    /\ shadowDir \in {ShadowOf(f) : f \in JoinShadowFiles}

\* Family 3: any shadow history; the index of the scenario.
HistoryEntries ==
    {ForConversation(e, id) :
        e \in {AuthEntry, OtherEntry, BareEntry}, id \in ConversationIds}

HistoryInputs ==
    /\ indexFile = IndexJson(<<[commit |-> Str(<<"a", "b">>), conversation_id |-> C1,
                                timestamp |-> T1]>>,
                             <<[id |-> <<"C1">>, rec |-> AuthConversation]>>)
    /\ shadowDir \in {ShadowOf(ShadowJson(h)) :
                        h \in SeqsUpTo(HistoryEntries, MaxHistory)}

NoCall ==
    [op |-> "none", commitHash |-> EMPTY, filePath |-> <<>>, conversationId |-> UNDEF]

NoScan == [thrown |-> FALSE, sel |-> 0, examined |-> 0]

QueryStart ==
    /\ ScanInputs \/ JoinInputs \/ HistoryInputs
    /\ microIndex = EmptyIndex
    /\ qpc = "new"
    /\ call = NoCall
    /\ outcome = "none"
    /\ result = NoProvenance
    /\ scan = NoScan

(***************************************************************************)
(* The operations of the query engine.                                     *)
(***************************************************************************)
\* new TigLocalQuery(tigDir): loads the index, once.
Construct ==
    /\ qpc = "new"
    /\ microIndex' = loadJson(indexFile, EmptyIndex)
    /\ qpc' = "ready"
    /\ UNCHANGED <<indexFile, shadowDir, call, outcome, result, scan>>
    /\ UNCHANGED svars

\* engine.getBlameInfo(commitHash, filePath)
GetBlameInfo(commitHash, filePath) ==
    /\ qpc = "ready"
    /\ LET r == getBlameInfo(microIndex, shadowDir, commitHash, filePath) IN
        /\ call' = [op |-> "getBlameInfo", commitHash |-> commitHash,
                    filePath |-> filePath, conversationId |-> UNDEF]
        /\ outcome' = IF r.thrown THEN "thrown" ELSE "returned"
        /\ result' = r.value
        /\ scan' = r.scan
    /\ UNCHANGED <<indexFile, shadowDir, microIndex, qpc>>
    /\ UNCHANGED svars

\* engine.getShadowContext(filePath, conversationId)
GetShadowContext(filePath, conversationId) ==
    /\ qpc = "ready"
    /\ call' = [op |-> "getShadowContext", commitHash |-> EMPTY,
                filePath |-> filePath, conversationId |-> conversationId]
    /\ outcome' = "returned"
    /\ result' = getShadowContext(shadowDir, filePath, conversationId)
    /\ scan' = NoScan
    /\ UNCHANGED <<indexFile, shadowDir, microIndex, qpc>>
    /\ UNCHANGED svars

QueryNext ==
    \/ Construct
    \/ \E h \in QueryHashes, f \in FilePaths : GetBlameInfo(h, f)
    \/ \E f \in FilePaths, id \in ConversationIds : GetShadowContext(f, id)

(***************************************************************************)
(* The sync side (src/unnamed/part_000).                                   *)
(*                                                                         *)
(* A relative path is the sequence of its components; a component is the   *)
(* sequence of the pieces its name has between dots: util.ts is            *)
(* <<"util", "ts">>, .gitignore is <<"", "gitignore">>, Makefile is        *)
(* <<"Makefile">>.  A tree maps each path of the universe to the bytes of  *)
(* the file there, or to ABSENT.                                           *)
(***************************************************************************)
ABSENT == "absent"

ConfigJson == << <<"config", "json">> >>
LogoPng == << <<"logo", "png">> >>
UtilTs == << <<"util", "ts">> >>
CacheMakefile == << <<"cache">>, <<"Makefile">> >>
VscodeSettings == << <<"", "vscode">>, <<"settings", "json">> >>

\* The files of the universe in the order readDirRecursive yields them:
\* the files of the root in directory order, then the directories, the
\* last one pushed on the stack first.
WalkOrder == <<ConfigJson, LogoPng, UtilTs, CacheMakefile, VscodeSettings>>

Paths == {WalkOrder[i] : i \in 1..Len(WalkOrder)}

\* The component '..' and the explicit path ../util.ts.
DotDot == <<"", "", "">>

UpUtilTs == <<DotDot>> \o UtilTs

\* The relative paths a caller can name.
Candidates == Paths \cup {UpUtilTs}

\* path.join(root, rp): a leading '..' leaves the root for the directory
\* above it; .tig lies in the project, the project in the directory
\* outside.
join(root, rp) ==
    IF Len(rp) > 0 /\ rp[1] = DotDot
    THEN [root |-> IF root = "mirror" THEN "project" ELSE "outside", rp |-> Tail(rp)]
    ELSE [root |-> root, rp |-> rp]

\* const tigPath = path.join(this.tigDir, rp)
tigPath(rp) == join("mirror", rp)

\* const mainPath = path.join(this.projectDir, rp)
mainPath(rp) == join("project", rp)

\* The file at a place of the file system.
FileAt(out, proj, mir, loc) ==
    CASE loc.root = "outside" -> out[loc.rp]
      [] loc.root = "project" -> proj[loc.rp]
      [] loc.root = "mirror" -> mir[loc.rp]

\* What the code finds at mainPath and at tigPath, by relative path.
MainFiles(out, proj, mir) ==
    [rp \in Candidates |-> FileAt(out, proj, mir, mainPath(rp))]

TigFiles(out, proj, mir) ==
    [rp \in Candidates |-> FileAt(out, proj, mir, tigPath(rp))]

Contents == {"v1", "v2"}

\* exists(p): fs.accessSync(p, F_OK) does not throw.
exists(tree, rp) == tree[rp] # ABSENT

\* path.basename(rp), a component
BaseOf(rp) == rp[Len(rp)]

\* The directories on the way to rp.
DirsOf(rp) == {rp[i] : i \in 1..(Len(rp) - 1)}

\* name.startsWith('.')
Hidden(name) == Len(name) >= 2 /\ name[1] = ""

\* path.extname(f): from the last dot of the basename on, '' when there is
\* no dot or the only dot starts the name.
extname(rp) ==
    LET bn == BaseOf(rp) IN
    IF Len(bn) >= 2 /\ ~(Len(bn) = 2 /\ bn[1] = "")
    THEN "." \o bn[Len(bn)] ELSE ""

\* The directory names of the universe.
DirNames == UNION {DirsOf(rp) : rp \in Paths}

\* readDirRecursive(dir, filterDirs): the files under dir, no directory
\* that filterDirs rejects being entered.
readDirRecursive(tree, filterDirs) ==
    LET Listed(rp) == exists(tree, rp) /\ \A d \in DirsOf(rp) : filterDirs[d]
    IN SelectSeq(WalkOrder, Listed)

\* !['.git', 'cache', 'shadow'].includes(name)
TigDirFilter ==
    [name \in DirNames |-> name \notin {<<"", "git">>, <<"cache">>, <<"shadow">>}]

\* !name.startsWith('.')
ProjectDirFilter == [name \in DirNames |-> ~Hidden(name)]

\* The names the walk of .tig skips.
MetadataNames ==
    {<<"micro_index", "json">>, <<"session_state", "json">>, <<"config", "json">>,
     <<"", "git">>, <<"", "gitignore">>}

allowed ==
    {".py", ".js", ".ts", ".jsx", ".tsx", ".java", ".c", ".cpp", ".go", ".rs",
     ".txt", ".md", ".json", ".xml", ".yaml", ".yml", ".toml", ".ini", ".cfg",
     ".html", ".css", ".scss", ".sass", ".less"}

\* The files tracked in .tig (lines 84-90).
TrackedInTig(tig) ==
    LET Kept(rp) == BaseOf(rp) \notin MetadataNames
    IN SelectSeq(readDirRecursive(tig, TigDirFilter), Kept)

InSeq(x, s) == \E i \in 1..Len(s) : s[i] = x

\* rp.startsWith('.tig' + path.sep)
UnderTig(rp) == Len(rp) >= 2 /\ rp[1] = <<"", "tig">>

\* Mutant of Eligible: the well-known names without extension forgotten.
EligibleByExtension(rp) == extname(rp) \in allowed

\* allowed.has(ext) || ['.gitignore', 'Makefile', 'Dockerfile'].includes(bn)
Eligible(rp) ==
    \/ extname(rp) \in allowed
    \/ BaseOf(rp) \in {<<"", "gitignore">>, <<"Makefile">>, <<"Dockerfile">>}

\* Mutant of NewInProject: the mirror is not looked at.
NewInProjectUnchecked(main, tig, filesToCheck) ==
    LET New(rp) ==
            /\ ~UnderTig(rp)
            /\ BaseOf(rp) \notin {<<"", "DS_Store">>, <<"Thumbs", "db">>}
            /\ Eligible(rp)
            /\ ~InSeq(rp, filesToCheck)
    IN SelectSeq(readDirRecursive(main, ProjectDirFilter), New)

\* The new files found in the project (lines 93-106).
NewInProject(main, tig, filesToCheck) ==
    LET New(rp) ==
            /\ ~UnderTig(rp)
            /\ BaseOf(rp) \notin {<<"", "DS_Store">>, <<"Thumbs", "db">>}
            /\ Eligible(rp)
            /\ ~exists(tig, rp)
            /\ ~InSeq(rp, filesToCheck)
    IN SelectSeq(readDirRecursive(main, ProjectDirFilter), New)

\* The candidates of one detection: the explicit paths, or the tracked files.
FilesToCheck(tig, specificFiles) ==
    IF Len(specificFiles) > 0 THEN specificFiles ELSE TrackedInTig(tig)

\* The classification of one candidate (lines 113-126); readFails holds the
\* paths on which a readFileSync of the comparison throws.
IsDeleted(main, tig, rp) == ~exists(main, rp)

IsNew(main, tig, rp) ==
    ~IsDeleted(main, tig, rp) /\ ~exists(tig, rp)

\* Mutant of IsModified: a comparison that throws reports nothing.
IsModifiedWhenRead(main, tig, rp, readFails) ==
    /\ ~IsDeleted(main, tig, rp)
    /\ ~IsNew(main, tig, rp)
    /\ rp \notin readFails
    /\ main[rp] # tig[rp]

IsModified(main, tig, rp, readFails) ==
    /\ ~IsDeleted(main, tig, rp)
    /\ ~IsNew(main, tig, rp)
    /\ (rp \in readFails \/ main[rp] # tig[rp])

\* findModifiedFiles(specificFiles): [modified, newFiles, deleted].
findModifiedFiles(main, tig, specificFiles, readFails) ==
    LET filesToCheck == FilesToCheck(tig, specificFiles)
        found == IF Len(specificFiles) > 0 THEN <<>>
                 ELSE NewInProject(main, tig, filesToCheck)
        Del(rp) == IsDeleted(main, tig, rp)
        New(rp) == IsNew(main, tig, rp)
        Mod(rp) == IsModified(main, tig, rp, readFails)
    IN [modified |-> SelectSeq(filesToCheck, Mod),
        newFiles |-> found \o SelectSeq(filesToCheck, New),
        deleted |-> SelectSeq(filesToCheck, Del)]

(***************************************************************************)
(* One sync invocation: main builds a TigSync and calls sync once.  The    *)
(* arguments are recorded when the code first reads them: force in         *)
(* validateSetup, files in findModifiedFiles, message in the commit block. *)
(***************************************************************************)
Unread == [t |-> "unread", v |-> <<>>]

NoArgs == [force |-> Unread, files |-> Unread, message |-> Unread]

NoChanges == [modified |-> <<>>, newFiles |-> <<>>, deleted |-> <<>>]

Step(name, rp, ok) == [step |-> name, rp |-> rp, ok |-> ok]

\* git status --porcelain prints something
Dirty == otherDirt \/ mirror # headTree

\* The explicit paths a caller gives; <<>> asks for discovery.
ExplicitFiles == {<<>>, <<UtilTs>>, <<LogoPng, UtilTs>>, <<UpUtilTs>>}

\* The messages a caller gives: none, -m "", -m "fix typo".
Messages == {NULL, EMPTY, Str(<<"fix typo">>)}

\* Mutant of Operations: the removals are left out.
OperationsWithoutRemovals(ch) ==
    [i \in 1..Len(ch.modified \o ch.newFiles) |->
        [rp |-> (ch.modified \o ch.newFiles)[i], isDeletion |-> FALSE]]

\* The operations of lines 174-175, in order.
Operations(ch) ==
    [i \in 1..Len(ch.modified \o ch.newFiles) |->
        [rp |-> (ch.modified \o ch.newFiles)[i], isDeletion |-> FALSE]]
    \o [i \in 1..Len(ch.deleted) |-> [rp |-> ch.deleted[i], isDeletion |-> TRUE]]

\* Mutant of NothingToSync: the early return is never taken.
NeverNothingToSync(ch) == FALSE

\* !modified.length && !newFiles.length && !deleted.length
NothingToSync(ch) ==
    Len(ch.modified) = 0 /\ Len(ch.newFiles) = 0 /\ Len(ch.deleted) = 0

RECURSIVE Join(_, _)
\* parts.join(sep)
Join(parts, sep) ==
    IF Len(parts) = 0 THEN <<>>
    ELSE IF Len(parts) = 1 THEN parts[1]
    ELSE parts[1] \o sep \o Join(Tail(parts), sep)

\* `${verb} ${n} file(s)`
CountPart(verb, n) == <<verb \o " ", ToString(n), " file(s)">>

\* The commit message of lines 185-194.
CommitMessage(message, ch) ==
    IF ~Truthy(message)
    THEN LET parts ==
                (IF Len(ch.modified) > 0
                    THEN <<CountPart("modified", Len(ch.modified))>> ELSE <<>>)
                \o (IF Len(ch.newFiles) > 0
                    THEN <<CountPart("added", Len(ch.newFiles))>> ELSE <<>>)
                \o (IF Len(ch.deleted) > 0
                    THEN <<CountPart("deleted", Len(ch.deleted))>> ELSE <<>>)
         IN Str(<<"manual: Sync ">> \o Join(parts, <<", ">>))
    ELSE Str(<<"manual: ">> \o message.v)

\* sync returns value: ret is "true" or "false" ("none" while it runs).
Return(value) ==
    /\ ret' = (IF value THEN "true" ELSE "false")
    /\ spc' = "done"

\* Mutant of validateSetup: the force flag also overrides a status check
\* that failed.
validateSetupForcedThrough(tigOk, repoOk, statusOk, dirty, force) ==
    tigOk /\ repoOk /\ (force \/ (statusOk /\ ~dirty))

\* validateSetup(): .tig exists, .tig/.git exists, git status ran, and its
\* output is empty or the force flag is set.
validateSetup(tigOk, repoOk, statusOk, dirty, force) ==
    /\ tigOk
    /\ repoOk
    /\ statusOk
    /\ ~(dirty /\ ~force)

\* sync(): this.force = !!force; if (!this.validateSetup()) return false.
\* statusOk is whether git status ran; out.trim() && !this.force reads the
\* flag only when the status is not clean.
Validate(force, statusOk) ==
    /\ spc = "idle"
    /\ args' = IF tigExists /\ isRepo /\ statusOk /\ Dirty
               THEN [NoArgs EXCEPT !.force = force] ELSE NoArgs
    /\ gitStatus' = IF ~(tigExists /\ isRepo) THEN "unrun"
                    ELSE IF ~statusOk THEN "failed"
                    ELSE IF Dirty THEN "dirty" ELSE "clean"
    /\ changes' = NoChanges
    /\ readFailed' = {}
    /\ queue' = <<>>
    /\ successCount' = 0
    /\ files_synced' = <<>>
    /\ before' = [project |-> project, mirror |-> mirror, commits |-> commits]
    /\ LET valid == validateSetup(tigExists, isRepo, statusOk, Dirty, force)
       IN /\ trace' = <<Step("validate", <<>>, valid)>>
          /\ IF valid THEN ret' = "none" /\ spc' = "detect"
                      ELSE Return(FALSE)
    /\ UNCHANGED <<outside, project, mirror, tigExists, isRepo, otherDirt, headTree,
                   commits, prev>>
    /\ UNCHANGED qvars

\* The candidates both trees hold: the paths whose two files are read.
Compared(main, tig, specificFiles) ==
    {rp \in DOMAIN main : /\ InSeq(rp, FilesToCheck(tig, specificFiles))
                    /\ exists(main, rp)
                    /\ exists(tig, rp)}

\* findModifiedFiles(files) and the early return of lines 157-165.
Detect(files, readFails) ==
    /\ spc = "detect"
    /\ LET main == MainFiles(outside, project, mirror)
           tig == TigFiles(outside, project, mirror)
           ch == findModifiedFiles(main, tig, files, readFails)
       IN
        /\ readFails \subseteq Compared(main, tig, files)
        /\ args' = [args EXCEPT !.files = files]
        /\ changes' = ch
        /\ readFailed' = readFails
        /\ trace' = Append(trace, Step("detect", <<>>, TRUE))
        /\ IF NothingToSync(ch)
           THEN /\ Return(TRUE)
                /\ queue' = <<>>
           ELSE /\ ret' = ret
                /\ spc' = "files"
                /\ queue' = Operations(ch)
    /\ UNCHANGED <<project, mirror, tigExists, isRepo, otherDirt, headTree, commits,
                   successCount, files_synced, before>>
    /\ UNCHANGED <<outside, gitStatus, prev>>
    /\ UNCHANGED qvars

\* syncFileToTig(rp, isDeletion) for the next operation; ioOk is whether
\* the file system lets mkdir, copyFile or unlink through.  The file is
\* written or removed at tigPath, wherever that lies.
SyncFileToTig(ioOk) ==
    /\ spc = "files"
    /\ Len(queue) > 0
    /\ LET op == Head(queue)
           source == FileAt(outside, project, mirror, mainPath(op.rp))
           target == tigPath(op.rp)
           done == IF op.isDeletion
                   THEN FileAt(outside, project, mirror, target) = ABSENT \/ ioOk
                   ELSE source # ABSENT /\ ioOk
           written == IF op.isDeletion THEN ABSENT ELSE source
       IN /\ mirror' = IF done /\ target.root = "mirror"
                       THEN [mirror EXCEPT ![target.rp] = written] ELSE mirror
          /\ project' = IF done /\ target.root = "project"
                        THEN [project EXCEPT ![target.rp] = written] ELSE project
          /\ successCount' = IF done THEN successCount + 1 ELSE successCount
          /\ files_synced' = IF done /\ ~op.isDeletion
                             THEN Append(files_synced, op.rp) ELSE files_synced
          /\ trace' = Append(trace,
                             Step(IF op.isDeletion THEN "remove" ELSE "copy", op.rp, done))
    /\ queue' = Tail(queue)
    /\ UNCHANGED <<outside, tigExists, isRepo, otherDirt, headTree, commits, spc,
                   args, changes, readFailed, ret, before>>
    /\ UNCHANGED <<gitStatus, prev>>
    /\ UNCHANGED qvars

\* Mutant of NoneSynced: the check of the success count is forgotten.
NeverNoneSynced(count) == FALSE

\* successCount === 0
NoneSynced(count) == count = 0

\* Mutant of Stage: a failure of git add does not stop the invocation.
StageRegardless(gitOk) ==
    /\ spc = "files"
    /\ Len(queue) = 0
    /\ IF NoneSynced(successCount)
       THEN /\ Return(FALSE)
            /\ trace' = trace
       ELSE /\ trace' = Append(trace, Step("stage", <<>>, gitOk))
            /\ ret' = ret
            /\ spc' = "commit"
    /\ UNCHANGED <<project, mirror, tigExists, isRepo, otherDirt, headTree, commits,
                   args, changes, readFailed, queue, successCount,
                   files_synced, before>>
    /\ UNCHANGED <<outside, gitStatus, prev>>
    /\ UNCHANGED qvars

\* Lines 177-184: no success returns false, else git add -A.
Stage(gitOk) ==
    /\ spc = "files"
    /\ Len(queue) = 0
    /\ IF NoneSynced(successCount)
       THEN /\ Return(FALSE)
            /\ trace' = trace
       ELSE /\ trace' = Append(trace, Step("stage", <<>>, gitOk))
            /\ IF gitOk THEN ret' = ret /\ spc' = "commit"
                        ELSE Return(FALSE)
    /\ UNCHANGED <<project, mirror, tigExists, isRepo, otherDirt, headTree, commits,
                   args, changes, readFailed, queue, successCount,
                   files_synced, before>>
    /\ UNCHANGED <<outside, gitStatus, prev>>
    /\ UNCHANGED qvars

\* Lines 185-195: git commit -m commitMessage; git refuses a commit that
\* changes nothing.
Commit(message, gitOk) ==
    /\ spc = "commit"
    /\ args' = [args EXCEPT !.message = message]
    /\ LET made == gitOk /\ Dirty IN
        /\ trace' = Append(trace, Step("commit", <<>>, made))
        /\ IF made
           THEN /\ commits' = Append(commits, CommitMessage(message, changes))
                /\ headTree' = mirror
                /\ otherDirt' = FALSE
                /\ ret' = ret
                /\ spc' = "revparse"
           ELSE /\ Return(FALSE)
                /\ UNCHANGED <<commits, headTree, otherDirt>>
    /\ UNCHANGED <<project, mirror, tigExists, isRepo, changes, readFailed,
                   queue, successCount, files_synced, before>>
    /\ UNCHANGED <<outside, gitStatus, prev>>
    /\ UNCHANGED qvars

\* Lines 196-206: git rev-parse HEAD, then return true.
RevParse(gitOk) ==
    /\ spc = "revparse"
    /\ trace' = Append(trace, Step("revparse", <<>>, gitOk))
    /\ Return(gitOk)
    /\ UNCHANGED <<project, mirror, tigExists, isRepo, otherDirt, headTree, commits,
                   args, changes, readFailed, queue, successCount,
                   files_synced, before>>
    /\ UNCHANGED <<outside, gitStatus, prev>>
    /\ UNCHANGED qvars

\* What is kept of an invocation once the next one starts.
NoPrev ==
    [ret |-> "none", args |-> NoArgs, changes |-> NoChanges, trace |-> <<>>,
     project |-> [rp \in Paths |-> ABSENT]]

\* main() again: after a run that returned success the command is run a
\* second time, in a new process with a new TigSync.
Again ==
    /\ spc = "done"
    /\ ret = "true"
    /\ prev = NoPrev
    /\ prev' = [ret |-> ret, args |-> args, changes |-> changes, trace |-> trace,
                project |-> project]
    /\ spc' = "idle"
    /\ args' = NoArgs
    /\ changes' = NoChanges
    /\ readFailed' = {}
    /\ queue' = <<>>
    /\ successCount' = 0
    /\ files_synced' = <<>>
    /\ ret' = "none"
    /\ trace' = <<>>
    /\ gitStatus' = "unrun"
    /\ before' = [project |-> project, mirror |-> mirror, commits |-> commits]
    /\ UNCHANGED <<outside, project, mirror, tigExists, isRepo, otherDirt, headTree,
                   commits>>
    /\ UNCHANGED qvars

\* Between the two runs the user writes or removes one file of the
\* project: what readDirRecursive(this.projectDir) and readFileSync(mainPath)
\* then find.
Edit(rp, content) ==
    /\ spc = "idle"
    /\ prev # NoPrev
    /\ project = prev.project
    /\ project[rp] # content
    /\ project' = [project EXCEPT ![rp] = content]
    /\ Cardinality({q \in Paths : project'[q] # ABSENT \/ mirror[q] # ABSENT}) <= MaxFiles
    /\ UNCHANGED <<outside, mirror, tigExists, isRepo, otherDirt, headTree,
                   commits, gitStatus, spc, args, changes, readFailed, queue,
                   successCount, files_synced, ret, trace, before, prev>>
    /\ UNCHANGED qvars

\* Two runs of the command in discovery mode, the second after the first
\* returned success, the project edited in between.
ResyncNext ==
    \/ \E statusOk \in BOOLEAN : Validate(FALSE, statusOk)
    \/ \E readFails \in SUBSET Paths : Detect(<<>>, readFails)
    \/ \E ioOk \in BOOLEAN : SyncFileToTig(ioOk)
    \/ \E gitOk \in BOOLEAN : Stage(gitOk)
    \/ \E gitOk \in BOOLEAN : Commit(NULL, gitOk)
    \/ \E gitOk \in BOOLEAN : RevParse(gitOk)
    \/ Again
    \/ \E rp \in Paths, content \in Contents \cup {ABSENT} : Edit(rp, content)

SyncNext ==
    \/ \E force \in BOOLEAN, statusOk \in BOOLEAN : Validate(force, statusOk)
    \/ \E files \in ExplicitFiles, readFails \in SUBSET Candidates :
          Detect(files, readFails)
    \/ \E ioOk \in BOOLEAN : SyncFileToTig(ioOk)
    \/ \E gitOk \in BOOLEAN : Stage(gitOk)
    \/ \E message \in Messages, gitOk \in BOOLEAN : Commit(message, gitOk)
    \/ \E gitOk \in BOOLEAN : RevParse(gitOk)

(***************************************************************************)
(* The trees a run starts from: at most MaxFiles paths hold a file in the  *)
(* project or in the mirror.                                               *)
(***************************************************************************)
Trees == [Paths -> Contents \cup {ABSENT}]

NoTree == [rp \in Paths |-> ABSENT]

Present(p, m) == {rp \in Paths : p[rp] # ABSENT \/ m[rp] # ABSENT}

SyncStart ==
    /\ outside \in {NoTree, [NoTree EXCEPT ![UtilTs] = "v1"]}
    /\ project \in Trees
    /\ mirror \in [Paths -> {"v1", ABSENT}]
    /\ Cardinality(Present(project, mirror)) <= MaxFiles
    /\ tigExists \in BOOLEAN
    /\ isRepo \in BOOLEAN
    /\ otherDirt \in BOOLEAN
    /\ ~tigExists => (~isRepo /\ mirror = NoTree)
    /\ ~isRepo => ~otherDirt
    /\ headTree = mirror
    /\ commits = <<>>
    /\ gitStatus = "unrun"
    /\ spc = "idle"
    /\ args = NoArgs
    /\ changes = NoChanges
    /\ readFailed = {}
    /\ queue = <<>>
    /\ successCount = 0
    /\ files_synced = <<>>
    /\ ret = "none"
    /\ trace = <<>>
    /\ before = [project |-> project, mirror |-> mirror, commits |-> <<>>]
    /\ prev = NoPrev

\* The sync side while the query is modelled.
SyncQuiet ==
    /\ outside = NoTree
    /\ project = NoTree
    /\ mirror = NoTree
    /\ tigExists = TRUE
    /\ isRepo = TRUE
    /\ otherDirt = FALSE
    /\ headTree = NoTree
    /\ commits = <<>>
    /\ gitStatus = "unrun"
    /\ spc = "idle"
    /\ args = NoArgs
    /\ changes = NoChanges
    /\ readFailed = {}
    /\ queue = <<>>
    /\ successCount = 0
    /\ files_synced = <<>>
    /\ ret = "none"
    /\ trace = <<>>
    /\ before = [project |-> NoTree, mirror |-> NoTree, commits |-> <<>>]
    /\ prev = NoPrev

\* The query side while the sync is modelled.
QueryQuiet ==
    /\ indexFile = MissingFile
    /\ shadowDir = ShadowOf(MissingFile)
    /\ microIndex = EmptyIndex
    /\ qpc = "new"
    /\ call = NoCall
    /\ outcome = "none"
    /\ result = NoProvenance
    /\ scan = NoScan

QueryInit == QueryStart /\ SyncQuiet

QuerySpec == QueryInit /\ [][QueryNext]_vars

SyncInit == SyncStart /\ QueryQuiet

SyncSpec == SyncInit /\ [][SyncNext]_vars

\* The runs of the command in a clean working tree of .tig.
ResyncInit ==
    /\ SyncInit
    /\ outside = NoTree
    /\ tigExists /\ isRepo /\ ~otherDirt

ResyncSpec == ResyncInit /\ [][ResyncNext]_vars

(***************************************************************************)
(* Claims about the query.  What a claim speaks of is defined here from    *)
(* the files and the call, apart from the operators of the engine.         *)
(***************************************************************************)
Least(S) == CHOOSE x \in S : \A y \in S : x <= y

LastBlame == call.op = "getBlameInfo"

\* The snapshots (by position in the map) whose stored commit equals the
\* hash asked for or starts with it; a snapshot without commit stores ''.
Hits(snapshots, hash) ==
    {i \in 1..Len(snapshots) :
        LET c == snapshots[i].commit IN
        IF c.t = "string" THEN IsPrefix(hash.v, c.v)
        ELSE c.t = "undefined" /\ hash.v = <<>>}

CallHits == Hits(microIndex.snapshots, call.commitHash)

\* The snapshot the last call took.
Taken == microIndex.snapshots[scan.sel]

\* The history the shadow file of the call's path holds, <<>> when the file
\* is missing, is not JSON or holds no history array.
CallHistory ==
    LET f == shadowDir[call.filePath[Len(call.filePath)]] IN
    IF f.st = "json" /\ f.val.history.t = "array" THEN f.val.history.v ELSE <<>>

EntriesOf(history, id) ==
    {i \in 1..Len(history) : history[i].conversation_id = id}

\* The conversation records the index holds under the taken snapshot's id.
TakenConversations ==
    {microIndex.conversations[k].rec :
        k \in {k \in 1..Len(microIndex.conversations) :
                  Str(microIndex.conversations[k].id) = Taken.conversation_id}}

\* C1: for every commit hash that no snapshot of the index matches,
\* getBlameInfo returns a record with conversation_id = null and
\* tool_operations = [] and does not throw, whatever the snapshots hold.
C1_NoMatchGivesNoProvenance ==
    (LastBlame /\ CallHits = {}) =>
        /\ outcome = "returned"
        /\ result.conversation_id = NULL
        /\ result.tool_operations = Arr(<<>>)

\* C2: a returned getBlameInfo took a snapshot exactly when some snapshot's
\* stored commit equals the hash or starts with it; the one taken is the
\* first such in the order of the map and the scan examined nothing after
\* it; a scan that threw had passed over no matching snapshot.
C2_FirstMatchTaken ==
    LastBlame =>
        /\ outcome = "returned" =>
              IF CallHits = {}
              THEN scan.sel = 0 /\ result = NoProvenance
              ELSE /\ scan.sel = Least(CallHits)
                   /\ scan.examined = scan.sel
                   /\ result.conversation_id = Taken.conversation_id
        /\ outcome = "thrown" =>
              \A i \in CallHits : i > scan.examined

\* C2's case: two snapshots match a proper prefix and the first is taken.
C2_Witness ==
    /\ LastBlame
    /\ outcome = "returned"
    /\ Cardinality(CallHits) >= 2
    /\ scan.sel = 1
    /\ scan.examined < Len(microIndex.snapshots)
    /\ Taken.commit # call.commitHash

\* C3: when several entries of a file's shadow history carry the target
\* conversation id, getShadowContext returns the fields of the first of
\* them in stored order, skipping the entries of other conversations.
C3_FirstEntryReturned ==
    (call.op = "getShadowContext" /\ EntriesOf(CallHistory, call.conversationId) # {}) =>
        LET e == CallHistory[Least(EntriesOf(CallHistory, call.conversationId))] IN
        /\ result.ai_response = Or(e.ai_response, EMPTY)
        /\ result.tool_operations = Or(e.tool_operations, Arr(<<>>))
        /\ result.user_prompt = Or(e.user_prompt, EMPTY)
        /\ result.timestamp = Or(e.timestamp, EMPTY)

\* C3's case: an entry of another conversation first, then two different
\* entries of the target conversation; the first of the two is returned.
C3_Witness ==
    /\ call.op = "getShadowContext"
    /\ Len(CallHistory) = 3
    /\ EntriesOf(CallHistory, call.conversationId) = {2, 3}
    /\ CallHistory[2].ai_response # CallHistory[3].ai_response
    /\ Truthy(CallHistory[3].ai_response)
    /\ result.ai_response = CallHistory[2].ai_response

\* The response of the first shadow entry of the taken snapshot's
\* conversation, when there is such an entry and it holds a response.
ShadowResponses ==
    LET es == EntriesOf(CallHistory, Taken.conversation_id) IN
    IF es = {} THEN {}
    ELSE {CallHistory[Least(es)].ai_response} \ {UNDEF, NULL, EMPTY}

\* The first recorded response of the taken snapshot's conversation.
RecordedResponses ==
    {c.responses.v[1] : c \in {c \in TakenConversations :
                                  c.responses.t = "array" /\ Len(c.responses.v) > 0}}

\* C4: for a query whose commit matches a snapshot, the returned
\* ai_response is the matching shadow entry's response when there is one,
\* otherwise the first recorded response of the snapshot's conversation,
\* otherwise the empty string.
C4_ResponsePreference ==
    (LastBlame /\ outcome = "returned" /\ scan.sel > 0) =>
        IF ShadowResponses # {} THEN result.ai_response \in ShadowResponses
        ELSE IF RecordedResponses # {} THEN result.ai_response \in RecordedResponses
        ELSE result.ai_response = EMPTY

\* C4's case: the shadow entry holds no response, the conversation has
\* recorded two, and the first of them is returned.
C4_Witness ==
    /\ LastBlame /\ outcome = "returned" /\ scan.sel > 0
    /\ EntriesOf(CallHistory, Taken.conversation_id) # {}
    /\ ShadowResponses = {}
    /\ \E c \in TakenConversations :
          /\ c.responses.t = "array"
          /\ Len(c.responses.v) = 2
          /\ c.responses.v[1] # c.responses.v[2]
          /\ result.ai_response = c.responses.v[1]

\* C5: for a query whose commit matches a snapshot, the returned timestamp
\* is the snapshot's timestamp when it has one, otherwise the start time of
\* the snapshot's conversation ('' when it has none); the shadow entry's
\* own timestamp never decides it.
C5_TimestampPreference ==
    (LastBlame /\ outcome = "returned" /\ scan.sel > 0) =>
        LET starts == {c.start_time : c \in TakenConversations} \ {UNDEF, NULL, EMPTY} IN
        /\ IF Taken.timestamp \notin {UNDEF, NULL, EMPTY}
           THEN result.timestamp = Taken.timestamp
           ELSE IF starts # {} THEN result.timestamp \in starts
           ELSE result.timestamp = EMPTY
        /\ \A i \in 1..Len(CallHistory) :
              Truthy(CallHistory[i].timestamp) =>
                  result.timestamp # CallHistory[i].timestamp

\* C5's case: the snapshot has no timestamp, its conversation started at
\* T0, the shadow entry found for it is stamped otherwise; T0 is returned.
C5_Witness ==
    /\ LastBlame /\ outcome = "returned" /\ scan.sel > 0
    /\ Taken.timestamp = UNDEF
    /\ \E i \in EntriesOf(CallHistory, Taken.conversation_id) :
          Truthy(CallHistory[i].timestamp)
    /\ result.timestamp = T0

\* No shadow entry answers the call: the file is missing, unparsable,
\* without history, or without an entry of the taken snapshot's conversation.
NoShadowEntry == EntriesOf(CallHistory, Taken.conversation_id) = {}

\* C6: absent data never makes the query fail once the marker directory is
\* found.  With a missing or unparsable index the call returns the record
\* of no provenance; a snapshot whose conversation_id names no conversation
\* yields empty prompts; a missing or unparsable shadow file, or one with
\* no entry of the conversation, yields no tool operations and the
\* conversation's response; with both absent the response is ''; and a
\* call throws only on a snapshot whose commit is present and not a string.
C6_AbsentDataTolerated ==
    LastBlame =>
        /\ indexFile.st # "json" => outcome = "returned" /\ result = NoProvenance
        /\ outcome = "thrown" =>
              /\ scan.examined \in 1..Len(microIndex.snapshots)
              /\ microIndex.snapshots[scan.examined].commit.t \notin {"undefined", "string"}
        /\ (outcome = "returned" /\ scan.sel > 0) =>
              /\ TakenConversations = {} =>
                    /\ result.user_prompt = EMPTY
                    /\ result.prompt = EMPTY
                    /\ result.timestamp = Or(Taken.timestamp, EMPTY)
              /\ NoShadowEntry =>
                    /\ result.tool_operations = Arr(<<>>)
                    /\ result.ai_response \in RecordedResponses \cup {EMPTY}
              /\ (TakenConversations = {} /\ NoShadowEntry) =>
                    result.ai_response = EMPTY

\* C6's case: the snapshot names a conversation the index does not hold and
\* the shadow file is not JSON; the call returns the empty defaults.
C6_Witness ==
    /\ LastBlame /\ outcome = "returned" /\ scan.sel > 0
    /\ TakenConversations = {}
    /\ shadowDir[call.filePath[Len(call.filePath)]].st = "corrupt"
    /\ Len(microIndex.conversations) > 0
    /\ result.prompt = EMPTY
    /\ result.ai_response = EMPTY
    /\ result.tool_operations = Arr(<<>>)

(***************************************************************************)
(* Claims about the sync.  before holds the project and the mirror as the  *)
(* invocation found them: the trees its detection saw.                     *)
(***************************************************************************)
\* The invocation has taken the step.
Did(name) == \E i \in 1..Len(trace) : trace[i].step = name

Explicit == Did("detect") /\ Len(args.files) > 0

Discovery == Did("detect") /\ Len(args.files) = 0

Occurrences(x, s) == Cardinality({i \in 1..Len(s) : s[i] = x})

InProject(rp) == before.project[rp] # ABSENT

InMirror(rp) == before.mirror[rp] # ABSENT

\* C7: in explicit mode each given path is reported as added exactly when
\* it exists in the project and not in the mirror, as deleted exactly when
\* it exists in the mirror and not in the project, as modified exactly when
\* both exist and their bytes differ, and in no list otherwise (stated for
\* the detections in which every read of the comparison succeeds).
C7_ExplicitClassification ==
    (Explicit /\ readFailed = {}) =>
        \A rp \in {args.files[i] : i \in 1..Len(args.files)} \cap Paths :
            /\ InSeq(rp, changes.newFiles) <=> (InProject(rp) /\ ~InMirror(rp))
            /\ InSeq(rp, changes.deleted) <=> (~InProject(rp) /\ InMirror(rp))
            /\ InSeq(rp, changes.modified) <=>
                  (InProject(rp) /\ InMirror(rp)
                   /\ before.project[rp] # before.mirror[rp])

\* C8: when the project tree and the mirror hold the same files with
\* identical bytes, findModifiedFiles returns modified = [], added = [],
\* deleted = [] (stated for the detections in which every read succeeds
\* and every path given lies in the project).
C8_IdenticalTreesNoChanges ==
    (/\ Did("detect")
     /\ \A i \in 1..Len(args.files) : args.files[i] \in Paths
     /\ before.project = before.mirror
     /\ \E rp \in Paths : InProject(rp)
     /\ readFailed = {}) =>
        changes = NoChanges

\* A path none of whose components starts with a dot.
Visible(rp) == \A i \in 1..Len(rp) : ~(Len(rp[i]) >= 2 /\ rp[i][1] = "")

\* A name with an allowed extension, or a well-known name without one.
AllowedName(rp) ==
    \/ extname(rp) \in allowed
    \/ rp[Len(rp)] \in {<<"Makefile">>, <<"Dockerfile">>}

Contains(text, piece) ==
    \E i \in 1..Len(text) :
        i + Len(piece) - 1 <= Len(text) /\ SubSeq(text, i, i + Len(piece) - 1) = piece

C10_NoChangesNoCommit ==
    (Did("detect") /\ changes = NoChanges) =>
        /\ spc = "done"
        /\ ret = "true"
        /\ Len(trace) = 2
        /\ ~Did("copy") /\ ~Did("remove") /\ ~Did("stage") /\ ~Did("commit")
        /\ mirror = before.mirror
        /\ commits = before.commits
        /\ successCount = 0

\* C10's case: a tracked file is the same in both trees, discovery finds
\* nothing and sync has returned success.
C10_Witness ==
    /\ Discovery
    /\ changes = NoChanges
    /\ project[UtilTs] = "v1"
    /\ before.mirror[UtilTs] = "v1"
    /\ ret = "true"
    /\ commits = <<>>

\* The paths a detection reported, in the order sync works through them.
Detected == changes.modified \o changes.newFiles \o changes.deleted

\* The copies and removals the invocation has attempted, in order.
FileSteps ==
    LET IsFileStep(st) == st.step \in {"copy", "remove"}
    IN SelectSeq(trace, IsFileStep)

Succeeded == {i \in 1..Len(FileSteps) : FileSteps[i].ok}

\* The loop over the detected paths is over.
LoopOver == spc \in {"commit", "revparse", "done"} /\ Len(Detected) > 0

\* C11: sync attempts the copy or removal of every detected path, in
\* order, whatever failed before; the success count is the number of
\* operations that succeeded; and once at least one succeeded the
\* invocation goes on to stage.
C11_PartialSuccess ==
    /\ Len(FileSteps) + Len(queue) = (IF Did("detect") THEN Len(Detected) ELSE 0)
    /\ \A i \in 1..Len(FileSteps) :
          /\ FileSteps[i].rp = Detected[i]
          /\ FileSteps[i].step =
                (IF i <= Len(changes.modified) + Len(changes.newFiles)
                 THEN "copy" ELSE "remove")
    /\ successCount = Cardinality(Succeeded)
    /\ LoopOver =>
          /\ Len(FileSteps) = Len(Detected)
          /\ (Succeeded # {}) <=> Did("stage")

\* C11's case: the first of two copies failed, the second went through, the
\* count is one and the commit was made.
C11_Witness ==
    /\ Len(FileSteps) = 2
    /\ ~FileSteps[1].ok
    /\ FileSteps[2].ok
    /\ successCount = 1
    /\ Len(commits) = Len(before.commits) + 1
    /\ ret = "true"

\* C12: when at least one file operation was attempted and none succeeded,
\* sync returns failure, having staged nothing and committed nothing.
C12_ZeroSuccessFails ==
    (LoopOver /\ Succeeded = {}) =>
        /\ spc = "done"
        /\ ret = "false"
        /\ ~Did("stage")
        /\ ~Did("commit")
        /\ commits = before.commits

\* C12's case: two operations were attempted, both failed, and sync has
\* returned failure.
C12_Witness ==
    /\ Len(FileSteps) = 2
    /\ Succeeded = {}
    /\ ret = "false"
    /\ ~Did("stage")

\* The mirror and its history are as the invocation found them and no step
\* after the validation was taken.
Untouched ==
    /\ Len(trace) = 1
    /\ mirror = before.mirror
    /\ commits = before.commits
    /\ ~Did("copy") /\ ~Did("remove") /\ ~Did("stage") /\ ~Did("commit")

\* C13: when .tig does not exist, or is not a git working tree, or git
\* status fails, or git status shows changes and the force flag is unset,
\* sync returns failure and has written or removed no mirror file, staged
\* nothing and committed nothing; with the force flag set a dirty mirror
\* passes the validation.
C13_FailsClosed ==
    Did("validate") =>
        /\ (\/ ~tigExists
            \/ ~isRepo
            \/ gitStatus = "failed"
            \/ (gitStatus = "dirty" /\ args.force = FALSE)) =>
                (spc = "done" /\ ret = "false" /\ Untouched)
        /\ (gitStatus = "dirty" /\ args.force = TRUE) =>
                (trace[1].ok /\ (spc = "done" => Did("detect")))

\* C13's case: the project holds work to sync, the mirror is dirty, the
\* force flag is unset, and sync has returned failure.
C13_Witness ==
    /\ gitStatus = "dirty"
    /\ args.force = FALSE
    /\ project # mirror
    /\ ret = "false"
    /\ Untouched

\* The invocation has made a commit; it is the last of the history.
Committed == Len(commits) = Len(before.commits) + 1

\* "manual: Sync " and one part per non-empty category, in the order
\* modified, added, deleted, the parts separated by ", ".
Summary(m, a, d) ==
    LET Part(verb, n) == IF n > 0 THEN << <<verb, ToString(n), " file(s)">> >> ELSE <<>>
        parts == Part("modified ", m) \o Part("added ", a) \o Part("deleted ", d)
        rest(i) == IF Len(parts) >= i THEN <<", ">> \o parts[i] ELSE <<>>
    IN <<"manual: Sync ">>
       \o (IF Len(parts) = 0 THEN <<>> ELSE parts[1] \o rest(2) \o rest(3))

\* C14: the message of the commit a sync makes is "manual: " followed by
\* the message given, whenever one is given; when none is given it is
\* "manual: Sync " followed by the counts of the modified, added and
\* deleted files.
C14_CommitMessage ==
    Committed =>
        LET msg == commits[Len(commits)] IN
        IF args.message.t = "null"
        THEN msg = Str(Summary(Len(changes.modified), Len(changes.newFiles),
                               Len(changes.deleted)))
        ELSE msg = Str(<<"manual: ">> \o args.message.v)

\* The places of a step in the trace of the invocation.
Pos(name) == {i \in 1..Len(trace) : trace[i].step = name}

\* A step of that name that succeeded comes before place j.
OkBefore(name, j) == \E i \in Pos(name) : i < j /\ trace[i].ok

\* C15: in one invocation the validation, the detection, the staging, the
\* commit and the reading of the commit id happen at most once each; no
\* step follows a validation that failed; every file operation comes
\* before the staging and none is left out; the commit follows a staging
\* that succeeded and the reading of the commit id a commit that
\* succeeded; a staging or a commit that failed is the last step; and the
\* invocation adds at most one commit.
C15_StepOrder ==
    /\ \A name \in {"validate", "detect", "stage", "commit", "revparse"} :
          Cardinality(Pos(name)) <= 1
    /\ Len(trace) > 0 => trace[1].step = "validate"
    /\ Len(trace) > 1 => trace[1].ok
    /\ \A j \in Pos("copy") \cup Pos("remove") :
          OkBefore("validate", j) /\ OkBefore("detect", j)
    /\ \A j \in Pos("stage") :
          /\ \A i \in Pos("copy") \cup Pos("remove") : i < j
          /\ Cardinality(Pos("copy") \cup Pos("remove")) = Len(Detected)
    /\ \A j \in Pos("commit") : OkBefore("stage", j)
    /\ \A j \in Pos("revparse") : OkBefore("commit", j)
    /\ \A i \in Pos("stage") \cup Pos("commit") :
          ~trace[i].ok => (i = Len(trace) /\ spc = "done" /\ ret = "false")
    /\ Len(commits) <= Len(before.commits) + 1
    /\ Committed <=> \E i \in Pos("commit") : trace[i].ok

\* C15's case: an invocation that went through every step, two file
\* operations among them.
C15_Witness ==
    /\ Len(trace) = 7
    /\ [i \in 1..7 |-> trace[i].step] \in
          {<<"validate", "detect", "copy", x, "stage", "commit", "revparse">> :
              x \in {"copy", "remove"}}
    /\ \A i \in 1..7 : trace[i].ok
    /\ Committed
    /\ ret = "true"

\* C16: whenever sync has returned failure, the commit history of the
\* mirror is as the invocation found it.
C16_FailureLeavesNoCommit ==
    (spc = "done" /\ ret = "false") => commits = before.commits

\* C19: whatever paths are given or discovered, no sync invocation
\* creates, overwrites or removes a file of the project tree outside the
\* mirror: the project is as the invocation found it.
C19_WritesOnlyInMirror == project = before.project

\* What the detection found at mainPath and at tigPath of a candidate.
SeenInProject(rp) ==
    IF rp \in Paths THEN before.project[rp] ELSE outside[Tail(rp)]

SeenInMirror(rp) ==
    IF rp \in Paths THEN before.mirror[rp] ELSE before.project[Tail(rp)]

Reported(rp) ==
    InSeq(rp, changes.modified) \/ InSeq(rp, changes.newFiles) \/ InSeq(rp, changes.deleted)

\* C20: a candidate held by both trees whose comparison met a read
\* failure is reported under modified, and under no other list; a
\* candidate held by both trees whose two files were read and are the same
\* bytes is reported under no list.
C20_ReadFailureIsModified ==
    Did("detect") =>
        /\ \A rp \in readFailed :
              /\ SeenInProject(rp) # ABSENT /\ SeenInMirror(rp) # ABSENT
              /\ InSeq(rp, changes.modified)
              /\ ~InSeq(rp, changes.newFiles) /\ ~InSeq(rp, changes.deleted)
        /\ \A rp \in Candidates \ readFailed :
              (/\ SeenInProject(rp) # ABSENT
               /\ SeenInProject(rp) = SeenInMirror(rp)) => ~Reported(rp)

\* C20's case: util.ts holds the same bytes in both trees, its comparison
\* met a read failure, and it is reported as modified.
C20_Witness ==
    /\ Did("detect")
    /\ readFailed = {UtilTs}
    /\ before.project[UtilTs] = "v1"
    /\ before.mirror[UtilTs] = "v1"
    /\ changes.modified = <<UtilTs>>

(***************************************************************************)
(* Claims about two runs of the sync.                                      *)
(***************************************************************************)
PrevDid(name) == \E i \in 1..Len(prev.trace) : prev.trace[i].step = name

\* The run before was a discovery-mode sync in which every file operation
\* and the commit succeeded.
PrevSyncedAll ==
    /\ PrevDid("commit")
    /\ Len(prev.args.files) = 0
    /\ \A i \in 1..Len(prev.trace) : prev.trace[i].ok
    /\ prev.ret = "true"

PrevAdded ==
    {rp \in Paths :
        /\ InSeq(rp, prev.changes.newFiles)
        /\ \E i \in 1..Len(prev.trace) :
              prev.trace[i] = [step |-> "copy", rp |-> rp, ok |-> TRUE]}

\* C18: a file that a discovery-mode sync copied into the mirror as added
\* is reported by the next discovery-mode detection under modified when
\* its bytes in the project have changed, and under deleted when it has
\* been removed from the project, whatever its name or directory.
C18_AddedStaysTracked ==
    (PrevDid("detect") /\ Len(prev.args.files) = 0 /\ Discovery) =>
        \A rp \in PrevAdded :
            /\ before.project[rp] = ABSENT => InSeq(rp, changes.deleted)
            /\ before.project[rp] \notin {ABSENT, prev.project[rp]} =>
                  InSeq(rp, changes.modified)

====
